---- MODULE Spec2Model ----
(***************************************************************************)
(* Request lifecycle, error propagation and process-level failure handling *)
(* of src/app.js (an Express application with helmet and a winston         *)
(* logger).                                                                *)
(*                                                                         *)
(* A connection carries one request through the middleware chain in the    *)
(* order in which app.js registers it.  The event loop is single threaded: *)
(* the synchronous stages of a request run to completion, other callbacks  *)
(* run only while no request is inside a synchronous stage (a request      *)
(* waiting for its body is not).  A finished response ends its connection  *)
(* before the loop turns to other work.                                    *)
(***************************************************************************)
EXTENDS Naturals, Sequences, FiniteSets

VARIABLES
  env,                 \* process.env.NODE_ENV
  server,              \* the listener app.listen returns: binding, listening,
                       \* failed, closing, closed
  bindError,           \* err.code given to the server's 'error' listener
  exitCalls,           \* the codes process.exit was called with
  procLog,             \* records the process-level code handed to the logger
  conns,               \* per connection: the request, its position in the
                       \* chain, the response, the forwarded error, the
                       \* records handed to the logger for it
  closeCallbacks,      \* callbacks given to server.close, not yet run
  winstonExitPending,  \* the logger's own exit after a fatal fault is due
  faults               \* fatal faults so far

vars == <<env, server, bindError, exitCalls, procLog, conns,
          closeCallbacks, winstonExitPending, faults>>

(* ------------------------------ bounds -------------------------------- *)

\* connections the listener holds at the same time
MaxConns == 1

\* fatal faults (unhandled rejection, uncaught exception) in one run
MaxFaults == 1

Conns == 1..MaxConns

(* ------------------------------ inputs -------------------------------- *)

\* values of process.env.NODE_ENV
Envs == {"production", "development"}

Methods == {"GET", "HEAD", "POST", "OPTIONS"}

\* a URL is its path segments and whether it ends with a slash
Url(segs, slash) == [segs |-> segs, slash |-> slash]

Urls ==
  { Url(<<>>, TRUE),
    Url(<<"api">>, FALSE),
    Url(<<"api">>, TRUE),
    Url(<<"api", "health">>, FALSE),
    Url(<<"api", "health">>, TRUE),
    Url(<<"API", "Health">>, FALSE),
    Url(<<"api", "data">>, FALSE),
    Url(<<"api", "nope">>, FALSE),
    Url(<<"health">>, FALSE),
    Url(<<"nonexistent">>, FALSE) }

\* request bodies: declared content type and raw text
NoBody == [type |-> "none", raw |-> ""]

Bodies ==
  { NoBody,
    [type |-> "application/json", raw |-> "{\"a\":1}"],
    [type |-> "application/json", raw |-> "{\"a\":"],
    [type |-> "application/x-www-form-urlencoded", raw |-> "a=1"] }

\* every method on every URL without a body, and bodies of each kind on a
\* route, on a route of the /api router and on a path without a route
BodyUrls ==
  { Url(<<>>, TRUE), Url(<<"api", "health">>, FALSE), Url(<<"nonexistent">>, FALSE) }

Requests ==
  [method : Methods, url : Urls, body : {NoBody}]
    \cup [method : {"GET", "POST"}, url : BodyUrls, body : Bodies \ {NoBody}]

BindErrors == {"EADDRINUSE", "EACCES"}

FaultKinds == {"unhandledRejection", "uncaughtException"}

(* --------------------------- errors and log --------------------------- *)

\* a message is its text as a sequence of pieces; the request's original URL
\* is spelled out piece by piece
UrlText(url) ==
  LET n == Len(url.segs)
      body == [i \in 1..(2 * n) |-> IF i % 2 = 1 THEN "/" ELSE url.segs[i \div 2]]
  IN  IF n = 0 THEN <<"/">>
      ELSE IF url.slash THEN body \o <<"/">> ELSE body

\* `new Error(message)`: no status property (0 stands for the absent, falsy
\* value), the stack trace captured at construction starts with the message
NewError(message) ==
  [message |-> message, status |-> 0,
   stack |-> <<"Error: ">> \o message \o <<"\n    at ">>]

WithStatus(err, status) == [err EXCEPT !.status = status]

NoError == [message |-> <<>>, status |-> 0, stack |-> <<>>]

\* the error a failing logger call raises
LoggerFailure == NewError(<<"logger failure">>)

\* the error express.json() forwards for a body JSON.parse rejects
ParseFailure(raw) == WithStatus(NewError(<<"Unexpected end of JSON input">>), 400)

WellFormedJson == {"{\"a\":1}", "{}"}

JsonParses(raw) == raw \in WellFormedJson

\* a record handed to the Logger; delivered is FALSE when the call threw
Record(level, event, attrs, threw) ==
  [level |-> level, event |-> event, attrs |-> attrs, delivered |-> ~threw]

(* ------------------------------ response ------------------------------ *)

NewResponse == [status |-> 200, headers |-> {}, sent |-> 0, body |-> [none |-> TRUE]]

HelmetHeaders ==
  {"Content-Security-Policy", "Strict-Transport-Security",
   "X-Content-Type-Options", "X-Frame-Options"}

SetHeaders(res, names) == [res EXCEPT !.headers = @ \cup names]

Status(res, code) == [res EXCEPT !.status = code]

\* res.send / res.json: the terminal write (body is the payload handed over)
Send(res, body) == [res EXCEPT !.sent = @ + 1, !.body = body]

Idle ==
  [pc |-> "idle", req |-> [method |-> "GET", url |-> Url(<<>>, TRUE), body |-> NoBody],
   res |-> NewResponse, err |-> NoError, log |-> <<>>, handler |-> "none",
   destroyed |-> FALSE]

\* positions at which a request waits for the event loop
Suspended == {"idle", "readJson", "readForm"}

Busy == \E c \in Conns : conns[c].pc \notin Suspended

Alive == exitCalls = <<>>

(* ------------------------------- routing ------------------------------ *)

Lower(s) ==
  CASE s = "API" -> "api"
    [] s = "Health" -> "health"
    [] OTHER -> s

LowerSegs(segs) == [i \in 1..Len(segs) |-> Lower(segs[i])]

\* Route.prototype._handles_method: a GET route also handles HEAD
HandlesMethodNoHead(method) == method = "GET"

HandlesMethod(method) == method \in {"GET", "HEAD"}

\* a route layer matches case-insensitively, with an optional trailing slash
LayerMatch(segs, pattern) == LowerSegs(segs) = pattern

\* apiRouter: the routes below the /api mount point, in registration order
ApiRoutes ==
  << [pattern |-> <<>>, handler |-> "apiRoot"],
     [pattern |-> <<"health">>, handler |-> "health"],
     [pattern |-> <<"data">>, handler |-> "data"] >>

ApiMatches(segs) == { i \in 1..Len(ApiRoutes) : LayerMatch(segs, ApiRoutes[i].pattern) }

Min(S) == CHOOSE x \in S : \A y \in S : x <= y

\* apiRouter.handle: the first route matching path and method; when the stack
\* is exhausted on an OPTIONS request that matched a path, the router itself
\* answers with the Allow header; otherwise control returns to the app
ApiDispatch(method, segs) ==
  LET m == ApiMatches(segs) IN
  IF m # {} /\ HandlesMethod(method) THEN ApiRoutes[Min(m)].handler
  ELSE IF m # {} /\ method = "OPTIONS" THEN "options"
  ELSE "none"

MountMatch(segs) == Len(segs) >= 1 /\ Lower(segs[1]) = "api"

\* the app's router: app.use('/api', apiRouter), then app.get('/'), then the
\* not-found middleware
Dispatch(method, url) ==
  LET api == IF MountMatch(url.segs) THEN ApiDispatch(method, Tail(url.segs)) ELSE "none" IN
  IF api # "none" THEN api
  ELSE IF LayerMatch(url.segs, <<>>) /\ HandlesMethod(method) THEN "root"
  ELSE "notFound"

(* --------------------------- middleware chain ------------------------- *)

\* the order in which app.js registers the non-error middleware
ChainParserFirst == <<"json", "urlencoded", "helmet", "log", "route", "notFound">>

ChainRouteBeforeLog == <<"helmet", "json", "urlencoded", "route", "log", "notFound">>

Chain == <<"helmet", "json", "urlencoded", "log", "route", "notFound">>

\* next(): the middleware registered after `stage`
After(stage) ==
  LET i == CHOOSE k \in 1..Len(Chain) : Chain[k] = stage
  IN  Chain[i + 1]

Conn(c) == conns[c]

Step(c, next) == conns' = [conns EXCEPT ![c] = next]

Process == <<env, server, bindError, exitCalls, procLog,
             closeCallbacks, winstonExitPending, faults>>

\* a connection is accepted and its request enters the chain
Accept(c, r) ==
  /\ Alive /\ server = "listening" /\ ~Busy
  /\ Conn(c).pc = "idle"
  /\ Step(c, [Idle EXCEPT !.pc = Chain[1], !.req = r])
  /\ UNCHANGED Process

\* app.use(helmet())
Helmet(c) ==
  /\ Alive /\ Conn(c).pc = "helmet"
  /\ Step(c, [Conn(c) EXCEPT !.res = SetHeaders(@, HelmetHeaders),
                             !.pc = After("helmet")])
  /\ UNCHANGED Process

\* app.use(express.json()): a JSON body is read asynchronously, any other
\* request passes straight on
JsonParser(c) ==
  /\ Alive /\ Conn(c).pc = "json"
  /\ Step(c, [Conn(c) EXCEPT !.pc = IF Conn(c).req.body.type = "application/json"
                                    THEN "readJson" ELSE After("json")])
  /\ UNCHANGED Process

\* the body has arrived: JSON.parse succeeds, or the parser forwards a 400 error
ReadJsonIgnoreFailure(c) ==
  /\ Alive /\ ~Busy /\ Conn(c).pc = "readJson"
  /\ Step(c, [Conn(c) EXCEPT !.pc = After("json")])
  /\ UNCHANGED Process

ReadJson(c) ==
  /\ Alive /\ ~Busy /\ Conn(c).pc = "readJson"
  /\ Step(c, IF JsonParses(Conn(c).req.body.raw)
             THEN [Conn(c) EXCEPT !.pc = After("json")]
             ELSE [Conn(c) EXCEPT !.pc = "error",
                                  !.err = ParseFailure(Conn(c).req.body.raw)])
  /\ UNCHANGED Process

\* app.use(express.urlencoded({ extended: true }))
UrlEncoded(c) ==
  /\ Alive /\ Conn(c).pc = "urlencoded"
  /\ Step(c, [Conn(c) EXCEPT
                !.pc = IF Conn(c).req.body.type = "application/x-www-form-urlencoded"
                       THEN "readForm" ELSE After("urlencoded")])
  /\ UNCHANGED Process

ReadForm(c) ==
  /\ Alive /\ ~Busy /\ Conn(c).pc = "readForm"
  /\ Step(c, [Conn(c) EXCEPT !.pc = After("urlencoded")])
  /\ UNCHANGED Process

RequestAttrs(r) == [method |-> r.method, url |-> UrlText(r.url)]

\* the request logging middleware: logger.info(...), then next(); an exception
\* of the logger call is caught by Express and forwarded as the request's error
AccessLog(c, threw) ==
  /\ Alive /\ Conn(c).pc = "log"
  /\ Step(c, [Conn(c) EXCEPT
                !.log = Append(@, Record("info", "Incoming Request",
                                         RequestAttrs(Conn(c).req), threw)),
                !.pc = IF threw THEN "error" ELSE After("log"),
                !.err = IF threw THEN LoggerFailure ELSE @])
  /\ UNCHANGED Process

\* router dispatch: app.use('/api', apiRouter) and app.get('/')
Route(c) ==
  /\ Alive /\ Conn(c).pc = "route"
  /\ LET h == Dispatch(Conn(c).req.method, Conn(c).req.url) IN
     Step(c, [Conn(c) EXCEPT !.handler = h,
                             !.pc = IF h = "notFound" THEN After("route") ELSE h])
  /\ UNCHANGED Process

\* apiRouter.get('/')
ApiRoot(c) ==
  /\ Alive /\ Conn(c).pc = "apiRoot"
  /\ Step(c, [Conn(c) EXCEPT
                !.res = Send(@, [text |-> "Hello from setup-a-ci Node.js app!"]),
                !.pc = "done"])
  /\ UNCHANGED Process

\* apiRouter.get('/health'): logger.info(...), then the health payload
Health(c, threw) ==
  /\ Alive /\ Conn(c).pc = "health"
  /\ Step(c, [Conn(c) EXCEPT
                !.log = Append(@, Record("info", "Health check requested.",
                                         [none |-> TRUE], threw)),
                !.res = IF threw THEN @
                        ELSE Send(Status(@, 200),
                                  [status |-> "healthy", uptime |-> "process.uptime()"]),
                !.pc = IF threw THEN "error" ELSE "done",
                !.err = IF threw THEN LoggerFailure ELSE @])
  /\ UNCHANGED Process

\* apiRouter.get('/data')
Data(c) ==
  /\ Alive /\ Conn(c).pc = "data"
  /\ Step(c, [Conn(c) EXCEPT
                !.res = Send(@, [message |-> "This is some protected data!"]),
                !.pc = "done"])
  /\ UNCHANGED Process

\* app.get('/')
Root(c) ==
  /\ Alive /\ Conn(c).pc = "root"
  /\ Step(c, [Conn(c) EXCEPT
                !.res = Send(@, [text |-> "Welcome to the Node.js application!"]),
                !.pc = "done"])
  /\ UNCHANGED Process

\* the router's own reply to OPTIONS on a path of apiRouter
Options(c) ==
  /\ Alive /\ Conn(c).pc = "options"
  /\ Step(c, [Conn(c) EXCEPT
                !.res = Send(SetHeaders(@, {"Allow"}), [text |-> "GET,HEAD"]),
                !.pc = "done"])
  /\ UNCHANGED Process

(* -------------------------- terminal error stage ---------------------- *)

\* `new Error(`Not Found - ${req.originalUrl}`)` with error.status = 404
NotFoundError(url) == WithStatus(NewError(<<"Not Found - ">> \o UrlText(url)), 404)

\* the 404 middleware: builds the error, logger.warn(...), next(error); it
\* writes nothing itself
NotFoundWrites(c, threw) ==
  /\ Alive /\ Conn(c).pc = "notFound"
  /\ Step(c, [Conn(c) EXCEPT
                !.log = Append(@, Record("warn", "404 Not Found",
                                         RequestAttrs(Conn(c).req), threw)),
                !.res = Send(Status(@, 404), [text |-> "Not Found"]),
                !.err = IF threw THEN LoggerFailure ELSE NotFoundError(Conn(c).req.url),
                !.pc = "error"])
  /\ UNCHANGED Process

NotFound(c, threw) ==
  /\ Alive /\ Conn(c).pc = "notFound"
  /\ Step(c, [Conn(c) EXCEPT
                !.log = Append(@, Record("warn", "404 Not Found",
                                         RequestAttrs(Conn(c).req), threw)),
                !.err = IF threw THEN LoggerFailure ELSE NotFoundError(Conn(c).req.url),
                !.pc = "error"])
  /\ UNCHANGED Process

\* err.status || 500
StatusCodeAlways500(err) == 500

StatusCode(err) == IF err.status # 0 THEN err.status ELSE 500

\* the stack placeholder of production mode
Marker == <<"U+1F95E">>

\* { message: err.message, stack: NODE_ENV === 'production' ? marker : err.stack }
EnvelopeLeaksStack(err) == [message |-> err.message, stack |-> err.stack]

Envelope(err) ==
  [message |-> err.message,
   stack |-> IF env = "production" THEN Marker ELSE err.stack]

ErrorAttrs(err, r) ==
  [status |-> StatusCode(err), stack |-> err.stack,
   url |-> UrlText(r.url), method |-> r.method]

\* the error middleware: res.status, res.json, logger.error.  An exception of
\* the logger call comes after the response is written: Express hands it to
\* its final handler, which finds the headers sent and destroys the socket
ErrorStage(c, threw) ==
  /\ Alive /\ Conn(c).pc = "error"
  /\ Step(c, [Conn(c) EXCEPT
                !.res = Send(Status(@, StatusCode(Conn(c).err)), Envelope(Conn(c).err)),
                !.log = Append(@, Record("error", "Error",
                                         ErrorAttrs(Conn(c).err, Conn(c).req), threw)),
                !.destroyed = threw,
                !.pc = "done"])
  /\ UNCHANGED Process

\* the response has gone out and the connection ends
Close(c) ==
  /\ Alive /\ Conn(c).pc = "done"
  /\ Step(c, Idle)
  /\ UNCHANGED Process

(* ------------------------------- process ------------------------------ *)

ProcRecord(level, event) == [level |-> level, event |-> event]

\* app.listen's callback: the socket is bound
Listening ==
  /\ Alive /\ server = "binding"
  /\ server' = "listening"
  /\ procLog' = Append(procLog, ProcRecord("info", "Server is running"))
  /\ UNCHANGED <<env, bindError, exitCalls, conns, closeCallbacks,
                 winstonExitPending, faults>>

\* the server's 'error' listener: both branches log and call process.exit(1)
BindErrorMessage(code) ==
  IF code = "EADDRINUSE" THEN "Port is already in use" ELSE "Server startup failed"

ListenErrorKeepsRunning(code) ==
  /\ Alive /\ server = "binding"
  /\ server' = "failed"
  /\ bindError' = code
  /\ procLog' = Append(procLog, ProcRecord("error", BindErrorMessage(code)))
  /\ exitCalls' = IF code = "EADDRINUSE" THEN Append(exitCalls, 1) ELSE exitCalls
  /\ UNCHANGED <<env, conns, closeCallbacks, winstonExitPending, faults>>

ListenError(code) ==
  /\ Alive /\ server = "binding"
  /\ server' = "failed"
  /\ bindError' = code
  /\ procLog' = Append(procLog, ProcRecord("error", BindErrorMessage(code)))
  /\ exitCalls' = Append(exitCalls, 1)
  /\ UNCHANGED <<env, conns, closeCallbacks, winstonExitPending, faults>>

\* an unhandled rejection or an uncaught exception.  Two listeners run: the
\* logger's own (exceptionHandlers / rejectionHandlers, exitOnError left at
\* its default), which logs and then exits the process once its transports
\* have flushed, and app.js's, which logs and calls server.close(callback).
\* With no connection open the listener closes on the next tick, before any
\* other callback, and the callback exits; otherwise it stays closing
Fatal(kind) ==
  /\ Alive /\ ~Busy /\ faults < MaxFaults
  /\ server \in {"listening", "closing"}
  /\ faults' = faults + 1
  /\ winstonExitPending' = TRUE
  /\ procLog' = Append(procLog, ProcRecord("error", kind))
  /\ IF \A c \in Conns : Conn(c).pc = "idle"
     THEN /\ server' = "closed"
          /\ exitCalls' = Append(exitCalls, 1)
          /\ closeCallbacks' = 0
     ELSE /\ server' = "closing"
          /\ exitCalls' = exitCalls
          /\ closeCallbacks' = closeCallbacks + 1
  /\ UNCHANGED <<env, bindError, conns>>

\* the listener's 'close' event, once the last connection has ended: the
\* callbacks given to server.close run process.exit(1)
ListenerClosed ==
  /\ Alive /\ ~Busy /\ server = "closing"
  /\ \A c \in Conns : Conn(c).pc = "idle"
  /\ server' = "closed"
  /\ exitCalls' = Append(exitCalls, 1)
  /\ closeCallbacks' = 0
  /\ UNCHANGED <<env, bindError, procLog, conns, winstonExitPending, faults>>

\* the logger's exit after logging the fault: process.exit(1)
WinstonExit ==
  /\ Alive /\ ~Busy /\ winstonExitPending
  /\ exitCalls' = Append(exitCalls, 1)
  /\ winstonExitPending' = FALSE
  /\ UNCHANGED <<env, server, bindError, procLog, conns, closeCallbacks, faults>>

(* ---------------------------- specifications -------------------------- *)

Init ==
  /\ env \in Envs
  /\ server = "binding"
  /\ bindError = "none"
  /\ exitCalls = <<>>
  /\ procLog = <<>>
  /\ conns = [c \in Conns |-> Idle]
  /\ closeCallbacks = 0
  /\ winstonExitPending = FALSE
  /\ faults = 0

\* the Logger honours its call contract: every call returns
Next ==
  \/ Listening
  \/ \E code \in BindErrors : ListenError(code)
  \/ \E kind \in FaultKinds : Fatal(kind)
  \/ ListenerClosed
  \/ WinstonExit
  \/ \E c \in Conns :
       \/ \E r \in Requests : Accept(c, r)
       \/ Helmet(c)
       \/ JsonParser(c)
       \/ ReadJson(c)
       \/ UrlEncoded(c)
       \/ ReadForm(c)
       \/ AccessLog(c, FALSE)
       \/ Route(c)
       \/ ApiRoot(c)
       \/ Health(c, FALSE)
       \/ Data(c)
       \/ Root(c)
       \/ Options(c)
       \/ NotFound(c, FALSE)
       \/ ErrorStage(c, FALSE)
       \/ Close(c)

Spec == Init /\ [][Next]_vars

\* a logger call made for a request may also throw
LoggerThrows ==
  \E c \in Conns :
    \/ AccessLog(c, TRUE)
    \/ Health(c, TRUE)
    \/ NotFound(c, TRUE)
    \/ ErrorStage(c, TRUE)

NextLogFault == Next \/ LoggerThrows

SpecLogFault == Init /\ [][NextLogFault]_vars

(* -------------------------------- claims ------------------------------ *)

Levels(log) == [i \in 1..Len(log) |-> log[i].level]

Answered(c) == Conn(c).pc = "done"

Failed(c) == Conn(c).err # NoError

\* the envelope of the synthesized 404 error, whatever the stack field holds
IsNotFoundEnvelope(c) ==
  /\ Conn(c).res.status = 404
  /\ DOMAIN Conn(c).res.body = {"message", "stack"}
  /\ Conn(c).res.body.message = <<"Not Found - ">> \o UrlText(Conn(c).req.url)

BodyParses(r) == r.body.type = "application/json" => r.body.raw \in WellFormedJson

\* no fatal fault has hit the process: it is up and accepts connections
StillServing == faults = 0 => Alive /\ server = "listening"

\* C1: once the chain has run for a request exactly one response has been
\* written: at no point more than one, and one when the request is finished,
\* on every path (route, router reply, not-found, forwarded error)
C1_ExactlyOneResponse ==
  \A c \in Conns :
    /\ Conn(c).res.sent <= 1
    /\ Answered(c) => Conn(c).res.sent = 1

C1_Witness ==
  \E c \in Conns :
    /\ Answered(c) /\ Conn(c).handler = "notFound"
    /\ Conn(c).res.status = 404 /\ Conn(c).res.sent = 1

\* C2 as stated: every request other than GET /, GET /api/, GET /api/health,
\* GET /api/data gets 404 with the "Not Found - <path>" envelope, and those
\* four never do
ListedRoutes ==
  { <<"GET", Url(<<>>, TRUE)>>, <<"GET", Url(<<"api">>, TRUE)>>,
    <<"GET", Url(<<"api", "health">>, FALSE)>>, <<"GET", Url(<<"api", "data">>, FALSE)>> }

C2_Original ==
  \A c \in Conns :
    Answered(c) =>
      IF <<Conn(c).req.method, Conn(c).req.url>> \in ListedRoutes
      THEN ~IsNotFoundEnvelope(c)
      ELSE IsNotFoundEnvelope(c)

\* what the routes answer: GET and HEAD on /, /api, /api/health and /api/data,
\* compared without case and without the trailing slash, and OPTIONS on the
\* three paths of the /api router
RoutePaths == {<<>>, <<"api">>, <<"api", "health">>, <<"api", "data">>}

HasRoute(r) ==
  LET path == [i \in 1..Len(r.url.segs) |-> Lower(r.url.segs[i])] IN
  \/ r.method \in {"GET", "HEAD"} /\ path \in RoutePaths
  \/ r.method = "OPTIONS" /\ path \in RoutePaths \ {<<>>}

\* C2, amended: a request whose body parses and which no route answers gets
\* 404 with the "Not Found - <original URL>" envelope; a request a route
\* answers never gets that envelope
C2_Amended ==
  \A c \in Conns :
    Answered(c) =>
      /\ HasRoute(Conn(c).req) => ~IsNotFoundEnvelope(c)
      /\ ~HasRoute(Conn(c).req) /\ BodyParses(Conn(c).req) => IsNotFoundEnvelope(c)

C2_Witness ==
  \E c \in Conns :
    /\ Answered(c) /\ Conn(c).req.method = "GET"
    /\ ~HasRoute(Conn(c).req) /\ BodyParses(Conn(c).req)
    /\ IsNotFoundEnvelope(c)

\* C3: every response written carries the hardening headers: of a route, of
\* the not-found stage, of a body-parse failure, of a handler fault
C3_HeadersOnEveryResponse ==
  \A c \in Conns : Conn(c).res.sent >= 1 => HelmetHeaders \subseteq Conn(c).res.headers

C3_Witness ==
  \E c \in Conns :
    /\ Answered(c) /\ Conn(c).res.status = 400
    /\ HelmetHeaders \subseteq Conn(c).res.headers

Malformed(r) == r.body.type = "application/json" /\ r.body.raw \notin WellFormedJson

\* C4: a malformed JSON body ends in the error stage: the request never
\* reaches dispatch or a route handler, it is answered 400 with the envelope
\* of the parser's error, and the process goes on serving
C4_MalformedJson ==
  \A c \in Conns :
    Conn(c).pc # "idle" /\ Malformed(Conn(c).req) =>
      /\ Conn(c).handler = "none"
      /\ Conn(c).pc \in {"helmet", "json", "readJson", "error", "done"}
      /\ Answered(c) =>
           /\ Conn(c).res.status = 400
           /\ DOMAIN Conn(c).res.body = {"message", "stack"}
           /\ Conn(c).res.body.message = Conn(c).err.message
           /\ Conn(c).err.status = 400
           /\ StillServing

C4_Witness ==
  \E c \in Conns :
    /\ Answered(c) /\ Malformed(Conn(c).req)
    /\ Conn(c).res.status = 400 /\ Alive /\ server = "listening"

\* C5: in production the stack field of every error envelope is the marker
\* and not the trace; in any other mode it is the error's non-empty trace;
\* the error log record holds the trace in both modes
C5_StackRedaction ==
  \A c \in Conns :
    Answered(c) /\ Failed(c) =>
      /\ Conn(c).err.stack # <<>>
      /\ Conn(c).err.stack # Marker
      /\ env = "production" => Conn(c).res.body.stack = Marker
      /\ env # "production" => Conn(c).res.body.stack = Conn(c).err.stack
      /\ Conn(c).log[Len(Conn(c).log)].attrs.stack = Conn(c).err.stack

C5_Witness ==
  \E c \in Conns :
    /\ Answered(c) /\ Failed(c) /\ env = "production"
    /\ Conn(c).res.status = 500
    /\ Conn(c).res.body.stack = Marker

\* C6: after a fatal fault the process exits only once the listener has
\* closed, with no request cut off
C6_ExitAfterClose ==
  faults > 0 /\ ~Alive =>
    /\ server = "closed"
    /\ \A c \in Conns : Conn(c).pc = "idle"

\* C7: a failed bind, whatever its code, logs one error record and exits
\* with code 1; nothing is served, nothing is retried and the "server is
\* running" record is not logged
C7_BindFailure ==
  bindError # "none" =>
    /\ exitCalls = <<1>>
    /\ server = "failed"
    /\ Len(procLog) = 1 /\ procLog[1].level = "error"
    /\ \A i \in 1..Len(procLog) : procLog[i].event # "Server is running"
    /\ \A c \in Conns : Conn(c).pc = "idle"

C7_Witness == bindError = "EACCES" /\ exitCalls = <<1>> /\ server = "failed"

AccessLogThrew(c) ==
  /\ Conn(c).log # <<>>
  /\ Conn(c).log[1].event = "Incoming Request"
  /\ ~Conn(c).log[1].delivered

\* C8: a failure of the access-log call is swallowed: the request goes on to
\* router dispatch and is never answered with the logger's error
C8_LogFailureSwallowed ==
  \A c \in Conns :
    AccessLogThrew(c) =>
      /\ Conn(c).pc \in {"error", "done"} => Conn(c).handler # "none"
      /\ Conn(c).err # LoggerFailure \/ Conn(c).handler # "none"

HealthThrew(c) ==
  \E i \in 1..Len(Conn(c).log) :
    Conn(c).log[i].event = "Health check requested." /\ ~Conn(c).log[i].delivered

ErrorRecords(c) == { i \in 1..Len(Conn(c).log) : Conn(c).log[i].level = "error" }

\* C9: an exception of a route handler and an error forwarded by a stage
\* reach the error stage, which answers with the error's status, or 500 when
\* it has none, writes the envelope and hands one error record with status,
\* stack, url and method to the logger; the process goes on serving
C9_ErrorStage ==
  \A c \in Conns :
    /\ HealthThrew(c) => Conn(c).pc \in {"error", "done"} /\ Conn(c).err = LoggerFailure
    /\ Answered(c) /\ Failed(c) =>
         /\ Conn(c).res.status = IF Conn(c).err.status # 0 THEN Conn(c).err.status ELSE 500
         /\ DOMAIN Conn(c).res.body = {"message", "stack"}
         /\ Conn(c).res.body.message = Conn(c).err.message
         /\ ErrorRecords(c) = {Len(Conn(c).log)}
         /\ Conn(c).log[Len(Conn(c).log)].attrs =
              [status |-> Conn(c).res.status, stack |-> Conn(c).err.stack,
               url |-> UrlText(Conn(c).req.url), method |-> Conn(c).req.method]
         /\ StillServing

C9_Witness ==
  \E c \in Conns :
    /\ Answered(c) /\ HealthThrew(c) /\ Conn(c).handler = "health"
    /\ Conn(c).res.status = 500 /\ Conn(c).res.sent = 1
    /\ Alive /\ server = "listening"

\* C10: a dispatched request has its access-log record first, matched or
\* not; for one that matched no route the records are info, warn, error in
\* that order, and the not-found stage writes nothing: it forwards the 404
\* error to the error stage
C10_UnmatchedLogOrder ==
  \A c \in Conns :
    /\ Conn(c).handler # "none" =>
         /\ Conn(c).log # <<>>
         /\ Conn(c).log[1].level = "info" /\ Conn(c).log[1].event = "Incoming Request"
    /\ Conn(c).handler = "notFound" =>
         /\ Conn(c).pc = "notFound" =>
              Levels(Conn(c).log) = <<"info">> /\ Conn(c).res.sent = 0
         /\ Conn(c).pc = "error" =>
              /\ Levels(Conn(c).log) = <<"info", "warn">>
              /\ Conn(c).res.sent = 0
              /\ Conn(c).err = NotFoundError(Conn(c).req.url)
         /\ Answered(c) =>
              /\ Levels(Conn(c).log) = <<"info", "warn", "error">>
              /\ Conn(c).res.status = 404

C10_Witness ==
  \E c \in Conns :
    /\ Answered(c) /\ Conn(c).handler = "notFound"
    /\ Levels(Conn(c).log) = <<"info", "warn", "error">>

====
